---- MODULE Spec2Model ----
(***************************************************************************)
(* A model of the validation-join-filter pipeline of the financial         *)
(* dashboard (src/src/utils/secureDataProcessor.js) and of the parts of    *)
(* src/src/components/Dashboard.jsx that call it.                          *)
(*                                                                         *)
(* Strings are tuples of one-character strings, so that stripping,         *)
(* trimming, truncation and parsing are computed, not assumed.             *)
(* JavaScript values are tagged records (JS value == one of Str, Num,      *)
(* Undefined, Null, NaN), so that `typeof`, truthiness and `=== null` are  *)
(* distinguishable as they are in the source.                              *)
(***************************************************************************)
EXTENDS Integers, Sequences, FiniteSets, TLC

(***************************************************************************)
(* JavaScript values                                                       *)
(***************************************************************************)
Str(s) == [t |-> "str", s |-> s, n |-> 0]
Num(n) == [t |-> "num", s |-> <<>>, n |-> n]
Undefined == [t |-> "undefined", s |-> <<>>, n |-> 0]
Null == [t |-> "null", s |-> <<>>, n |-> 0]
NaN == [t |-> "nan", s |-> <<>>, n |-> 0]

\* JavaScript truthiness (`!x`, `x ? a : b`, `.filter(Boolean)`).
Falsy(v) ==
    \/ v.t \in {"undefined", "null", "nan"}
    \/ v.t = "str" /\ v.s = <<>>
    \/ v.t = "num" /\ v.n = 0

Min2(a, b) == IF a <= b THEN a ELSE b

(***************************************************************************)
(* Program constants.  Numbers too large for the model checker's integers  *)
(* are kept in a smaller unit, stated at each definition.                  *)
(***************************************************************************)
\* MAX_ROWS (also the upper bound of a filing id).
MAX_ROWS == 10000
\* Years accepted by validateDate, secureFilterData, generateSecureQuarterOptions.
MinYear == 1900
MaxYear == 2030
\* Length limits passed to validateString.
SymbolMaxLen == 10
CompanyNameMaxLen == 200
FormNameMaxLen == 100
\* Upper bound of a CIK: 9999999999 in the source; the model's CIKs have at
\* most four digits and the bound is kept above all of them.
CikMax == 99999
\* CCP and LTD are counted in units of 1e9: the sanity bound 1e12 is 1000
\* and Number.MAX_SAFE_INTEGER (9007199254740991) is 9007199.
MaxSafeAmount == 9007199
OneTrillion == 1000
\* Record limits of processSecureFinancialData.
MaxStockRecords == 1000
MaxFormRecords == 5000
MaxTaskRecords == 10000
\* secureFilterData: limit on selectedCompanies; 50 in the source, scaled so
\* that the companies of a Dataset of the model can exceed it.  It stays
\* above DashboardSelectionLimit, as 50 is above 20.
MaxSelectedCompanies == 5
\* generateSecureQuarterOptions: the longest span of years, maxYear - minYear.
MaxYearSpan == 50
\* secureFilterData: cap on the result; 5000 in the source, scaled so that
\* the datasets of the model can exceed it.
ResultCap == 3

(***************************************************************************)
(* Field validators                                                        *)
(***************************************************************************)
DangerousChars == {"<", ">", "\"", "'", "&"}
WhiteSpace == {" "}
Digits == {"0", "1", "2", "3", "4", "5", "6", "7", "8", "9"}
DigitVal == [c \in Digits |->
    CASE c = "0" -> 0 [] c = "1" -> 1 [] c = "2" -> 2 [] c = "3" -> 3
      [] c = "4" -> 4 [] c = "5" -> 5 [] c = "6" -> 6 [] c = "7" -> 7
      [] c = "8" -> 8 [] c = "9" -> 9]
DigitChar == <<"0", "1", "2", "3", "4", "5", "6", "7", "8", "9">>

RECURSIVE TrimLeft(_)
TrimLeft(s) ==
    IF s # <<>> /\ Head(s) \in WhiteSpace THEN TrimLeft(Tail(s)) ELSE s

RECURSIVE TrimRight(_)
TrimRight(s) ==
    IF s # <<>> /\ s[Len(s)] \in WhiteSpace
    THEN TrimRight(SubSeq(s, 1, Len(s) - 1)) ELSE s

\* String.prototype.trim
Trim(s) == TrimRight(TrimLeft(s))

\* value.replace(/[<>"'&]/g, '')
StripDangerous(s) == SelectSeq(s, LAMBDA c : c \notin DangerousChars)

\* String.prototype.substring(0, maxLength)
Substring0(s, maxLength) == SubSeq(s, 1, Min2(maxLength, Len(s)))

\* A mutant of validateString: truncate first, then trim.
validateStringTrimLast(value, maxLength) ==
    IF value.t # "str" THEN Null
    ELSE Str(Trim(Substring0(StripDangerous(value.s), maxLength)))

validateString(value, maxLength) ==
    IF value.t # "str" THEN Null
    ELSE Str(Substring0(Trim(StripDangerous(value.s)), maxLength))

\* The value of the longest prefix of s made of decimal digits, as
\* parseInt(s, 10) reads it after white space and a sign; -1 if none.
RECURSIVE DigitsPrefix(_, _, _)
DigitsPrefix(s, acc, seen) ==
    IF s # <<>> /\ Head(s) \in Digits
    THEN DigitsPrefix(Tail(s), 10 * acc + DigitVal[Head(s)], TRUE)
    ELSE IF seen THEN acc ELSE -1

\* The number read from s, which starts at the sign or the first digit.
SignedDigits(s) ==
    IF s # <<>> /\ Head(s) = "-"
    THEN (IF DigitsPrefix(Tail(s), 0, FALSE) < 0 THEN NaN
          ELSE Num(0 - DigitsPrefix(Tail(s), 0, FALSE)))
    ELSE IF s # <<>> /\ Head(s) = "+"
    THEN (IF DigitsPrefix(Tail(s), 0, FALSE) < 0 THEN NaN
          ELSE Num(DigitsPrefix(Tail(s), 0, FALSE)))
    ELSE IF DigitsPrefix(s, 0, FALSE) < 0 THEN NaN
    ELSE Num(DigitsPrefix(s, 0, FALSE))

\* parseInt(value, 10).  A number is first converted to its decimal string,
\* which for the integers of the model parses back to the same number.
ParseInt(value) ==
    CASE value.t = "num" -> value
      [] value.t = "str" -> SignedDigits(TrimLeft(value.s))
      [] OTHER -> NaN

\* parseFloat(value) reads the same prefix on the strings of the model,
\* which hold no '.', no exponent and no "Infinity".
ParseFloat(value) == ParseInt(value)

\* The range check shared by validateNumber and validateInteger.
InRangeOrNull(num, min, max) ==
    IF num.t = "nan" THEN Null
    ELSE IF num.n < min \/ num.n > max THEN Null
    ELSE num

validateNumber(value, min, max) == InRangeOrNull(ParseFloat(value), min, max)

validateInteger(value, min, max) == InRangeOrNull(ParseInt(value), min, max)

(***************************************************************************)
(* Dates.  A Date is the UTC calendar day <<year, month, day>> of its time *)
(* value (all dates of the pipeline are parsed from date-only strings, so  *)
(* their time of day is 00:00 UTC).  getFullYear and getMonth read the     *)
(* local calendar: west of Greenwich that is the day before.  Both the     *)
(* time zone and the engine's treatment of days past the end of a month    *)
(* belong to the environment (variables tzWest and lenientDates).          *)
(***************************************************************************)
IsLeap(y) == (y % 4 = 0 /\ y % 100 # 0) \/ y % 400 = 0

DaysInMonth(y, m) ==
    IF m = 2 THEN (IF IsLeap(y) THEN 29 ELSE 28)
    ELSE IF m \in {4, 6, 9, 11} THEN 30 ELSE 31

\* The day before date d.
PrevDay(d) ==
    IF d[3] > 1 THEN <<d[1], d[2], d[3] - 1>>
    ELSE IF d[2] > 1 THEN <<d[1], d[2] - 1, DaysInMonth(d[1], d[2] - 1)>>
    ELSE <<d[1] - 1, 12, 31>>

\* The local calendar day of a Date.
LocalDay(d, west) == IF west THEN PrevDay(d) ELSE d

\* Date.prototype.getFullYear / getMonth (0-based)
GetFullYear(d, west) == LocalDay(d, west)[1]
GetMonth(d, west) == LocalDay(d, west)[2] - 1

\* a - b for two Dates, as a sign.
DateCompare(a, b) ==
    IF a = b THEN 0
    ELSE IF \/ a[1] < b[1]
            \/ a[1] = b[1] /\ a[2] < b[2]
            \/ a[1] = b[1] /\ a[2] = b[2] /\ a[3] < b[3]
         THEN -1 ELSE 1

\* /^\d{4}-\d{2}-\d{2}$/
MatchesDateRegex(s) ==
    /\ Len(s) = 10
    /\ s[5] = "-" /\ s[8] = "-"
    /\ \A i \in {1, 2, 3, 4, 6, 7, 9, 10} : s[i] \in Digits

\* new Date(s) for a string that matches the regex: the Date, or <<>> for an
\* Invalid Date.  A day of 29..31 past the end of its month is an Invalid
\* Date in a strict engine and rolls over into the next month in a lenient
\* one.
DateOfParts(y, m, d, lenient) ==
    IF m < 1 \/ m > 12 \/ d < 1 \/ d > 31 THEN <<>>
    ELSE IF d <= DaysInMonth(y, m) THEN <<y, m, d>>
    ELSE IF lenient THEN <<y, m + 1, d - DaysInMonth(y, m)>>
    ELSE <<>>

NewDate(s, lenient) ==
    DateOfParts(1000 * DigitVal[s[1]] + 100 * DigitVal[s[2]]
                  + 10 * DigitVal[s[3]] + DigitVal[s[4]],
                10 * DigitVal[s[6]] + DigitVal[s[7]],
                10 * DigitVal[s[9]] + DigitVal[s[10]],
                lenient)

\* The Date of validateDate, or <<>> for its null.
\* The checks of validateDate on the parsed Date.
CheckedDate(date, west) ==
    IF date = <<>> THEN <<>>
    ELSE IF GetFullYear(date, west) < MinYear \/ GetFullYear(date, west) > MaxYear
    THEN <<>>
    ELSE date

validateDate(value, west, lenient) ==
    IF Falsy(value) \/ value.t # "str" THEN <<>>
    ELSE IF ~MatchesDateRegex(value.s) THEN <<>>
    ELSE CheckedDate(NewDate(value.s, lenient), west)

\* Number.prototype.toString of a natural number.
RECURSIVE NatToString(_)
NatToString(n) ==
    IF n < 10 THEN <<DigitChar[n + 1]>>
    ELSE NatToString(n \div 10) \o <<DigitChar[(n % 10) + 1]>>

Pad2(n) == IF n < 10 THEN <<"0">> \o NatToString(n) ELSE NatToString(n)

\* date.toISOString().split('T')[0], for the four-digit years of the model.
ToISODate(d) == NatToString(d[1]) \o <<"-">> \o Pad2(d[2]) \o <<"-">> \o Pad2(d[3])

(***************************************************************************)
(* URLs.  new URL(s) is read for strings of the shape scheme://host/path   *)
(* in lower case, with no userinfo, port, query or fragment.               *)
(***************************************************************************)
\* The index of the first c in s, or 0.
RECURSIVE IndexOf(_, _, _)
IndexOf(s, c, from) ==
    IF from > Len(s) THEN 0
    ELSE IF s[from] = c THEN from
    ELSE IndexOf(s, c, from + 1)

EndsWith(s, suffix) ==
    /\ Len(s) >= Len(suffix)
    /\ SubSeq(s, Len(s) - Len(suffix) + 1, Len(s)) = suffix

TrustedSuffix == <<"s", "e", "c", ".", "g", "o", "v">>
HttpsScheme == <<"h", "t", "t", "p", "s">>

\* new URL(s): [ok, protocol (without the colon), hostname, href].
\* s has a scheme ending at `colon`, followed by "//" and a host.
WellFormedURL(s, colon) ==
    /\ colon > 1
    /\ Len(s) >= colon + 3
    /\ s[colon + 1] = "/" /\ s[colon + 2] = "/"
    /\ s[colon + 3] # "/"

\* The parts of s, whose host runs from colon + 3 to the `slash` that
\* starts the path (0: no path, and href gets the path "/").
URLParts(s, colon, slash) ==
    [ok |-> TRUE,
     protocol |-> SubSeq(s, 1, colon - 1),
     hostname |-> SubSeq(s, colon + 3, IF slash = 0 THEN Len(s) ELSE slash - 1),
     href |-> IF slash = 0 THEN s \o <<"/">> ELSE s]

URLAfterScheme(s, colon) ==
    IF ~WellFormedURL(s, colon) THEN [ok |-> FALSE]
    ELSE URLParts(s, colon, IndexOf(s, "/", colon + 3))

ParseURL(s) == URLAfterScheme(s, IndexOf(s, ":", 1))

\* A mutant of validateURL: the scheme is not checked.
AcceptAnyScheme(url) ==
    IF url.ok /\ EndsWith(url.hostname, TrustedSuffix) THEN Str(url.href) ELSE Null

validateURLAnyScheme(value) ==
    IF Falsy(value) \/ value.t # "str" THEN Null
    ELSE AcceptAnyScheme(ParseURL(value.s))

\* The test of validateURL on the parsed URL.
AcceptTrusted(url) ==
    IF url.ok /\ url.protocol = HttpsScheme /\ EndsWith(url.hostname, TrustedSuffix)
    THEN Str(url.href) ELSE Null

validateURL(value) ==
    IF Falsy(value) \/ value.t # "str" THEN Null
    ELSE AcceptTrusted(ParseURL(value.s))

(***************************************************************************)
(* Record sanitizers.  A raw row maps column names to JS values; the       *)
(* result is a record with ok = FALSE for the source's null.               *)
(***************************************************************************)
Rejected == [ok |-> FALSE]

\* row[column]: undefined for a column the parsed row does not have.
Field(row, column) == IF column \in DOMAIN row THEN row[column] ELSE Undefined

StockRecord(symbol, companyName, cik) ==
    IF Falsy(symbol) \/ Falsy(companyName) \/ Falsy(cik) THEN Rejected
    ELSE [ok |-> TRUE,
          symbol |-> symbol.s,
          companyName |-> companyName.s,
          cik |-> NatToString(cik.n)]

sanitizeStockData(row) ==
    StockRecord(validateString(Field(row, "Symbol"), SymbolMaxLen),
                validateString(Field(row, "CompanyName"), CompanyNameMaxLen),
                validateInteger(Field(row, "CIK"), 1, CikMax))

FormRecord(id, formName, cik, valueDate, filingDate, formURL) ==
    IF \/ Falsy(id) \/ Falsy(formName) \/ Falsy(cik)
       \/ valueDate = <<>> \/ filingDate = <<>> \/ Falsy(formURL)
    THEN Rejected
    ELSE [ok |-> TRUE,
          id |-> NatToString(id.n),
          formName |-> formName.s,
          cik |-> NatToString(cik.n),
          valueDate |-> ToISODate(valueDate),
          filingDate |-> ToISODate(filingDate),
          formURL |-> formURL.s]

sanitizeFormData(row, west, lenient) ==
    FormRecord(validateInteger(Field(row, "id"), 1, MAX_ROWS),
               validateString(Field(row, "FormName"), FormNameMaxLen),
               validateInteger(Field(row, "CIK"), 1, CikMax),
               validateDate(Field(row, "ValueDate"), west, lenient),
               validateDate(Field(row, "FilingDate"), west, lenient),
               validateURL(Field(row, "FormURL")))

\* `row.X ? validate(row.X, min, max) : dflt` of an optional column.
OptionalInteger(row, column, min, max, dflt) ==
    IF Falsy(Field(row, column)) THEN dflt
    ELSE validateInteger(Field(row, column), min, max)

\* The source's lower bound of SumDivider is 0.001; on the integer literals
\* of the model that is 1.
OptionalNumber(row, column, min, max, dflt) ==
    IF Falsy(Field(row, column)) THEN dflt
    ELSE validateNumber(Field(row, column), min, max)

TaskRecord(row, formId, ccp, ltd) ==
    IF formId.t = "null" \/ ccp.t = "null" \/ ltd.t = "null" THEN Rejected
    ELSE [ok |-> TRUE,
          formId |-> NatToString(formId.n),
          ccp |-> ccp.n,
          ltd |-> ltd.n,
          textListLen |-> OptionalInteger(row, "TextListLen", 0, 1000, Null),
          tableIndex |-> OptionalInteger(row, "TableIndex", 0, 100, Null),
          sumDivider |-> OptionalNumber(row, "SumDivider", 1, 10000, Num(1)),
          jsonTable |-> OptionalInteger(row, "JsonTable", 0, 1, Null),
          valueColumn |-> OptionalInteger(row, "ValueColumn", 0, 10, Null)]

sanitizeTaskData(row) ==
    TaskRecord(row,
               validateInteger(Field(row, "Form_id"), 1, MAX_ROWS),
               validateNumber(Field(row, "CCP"), 0, MaxSafeAmount),
               validateNumber(Field(row, "LTD"), 0, MaxSafeAmount))

(***************************************************************************)
(* processSecureFinancialData after the three loads: sanitize, join,       *)
(* aggregate.                                                              *)
(***************************************************************************)
MaxOf(S) == CHOOSE x \in S : \A y \in S : y <= x
MinOf(S) == CHOOSE x \in S : \A y \in S : x <= y

\* rows.map(sanitize).filter(Boolean): the rows the sanitizer accepted.
Accepted(sanitized) == SelectSeq(sanitized, LAMBDA r : r.ok)

\* The element of entries at the greatest index of idx, or Rejected
\* (Map.get's undefined) if there is none.
LastAt(entries, idx) == IF idx = {} THEN Rejected ELSE entries[MaxOf(idx)]

\* stocksMap.get(cik): Map.set overwrites, so the last stock of a cik wins.
StocksMapGet(stocks, cik) ==
    LastAt(stocks, {i \in DOMAIN stocks : stocks[i].cik = cik})

\* formsMap.get(id): the last form of an id wins.
FormsMapGet(forms, id) ==
    LastAt(forms, {i \in DOMAIN forms : forms[i].id = id})

\* Math.ceil((month + 1) / 3) for the 0-based month of getMonth.
QuarterOfMonth(month) == (month + 1 + 2) \div 3

\* `Q${quarter} ${year}`
QuarterLabel(quarter, year) ==
    <<"Q">> \o NatToString(quarter) \o <<" ">> \o NatToString(year)

\* The record pushed on combinedData.
CombinedRecord(task, form, stock, valueDate, year, quarter) ==
    [ok |-> TRUE,
     id |-> task.formId,
     company |-> stock.companyName,
     symbol |-> stock.symbol,
     cik |-> stock.cik,
     year |-> year,
     quarter |-> quarter,
     date |-> valueDate,
     dateString |-> form.valueDate,
     quarterLabel |-> QuarterLabel(quarter, year),
     ccp |-> task.ccp,
     ltd |-> task.ltd,
     formName |-> form.formName,
     formURL |-> form.formURL]

\* A mutant of CombineLinked: the $1T sanity check is missing.
CombineLinkedNoSanityCheck(task, form, stock, valueDate, west) ==
    IF valueDate = <<>> THEN Rejected
    ELSE IF task.ccp < 0 \/ task.ltd < 0 THEN Rejected
    ELSE CombinedRecord(task, form, stock, valueDate,
                        GetFullYear(valueDate, west),
                        QuarterOfMonth(GetMonth(valueDate, west)))

\* From `const valueDate = new Date(form.valueDate)` on.
CombineLinked(task, form, stock, valueDate, west) ==
    IF valueDate = <<>> THEN Rejected
    ELSE IF task.ccp < 0 \/ task.ltd < 0 THEN Rejected
    ELSE IF task.ccp > OneTrillion \/ task.ltd > OneTrillion THEN Rejected
    ELSE CombinedRecord(task, form, stock, valueDate,
                        GetFullYear(valueDate, west),
                        QuarterOfMonth(GetMonth(valueDate, west)))

\* From `const stock = stocksMap.get(form.cik)` on.
CombineWithStock(task, form, stock, west, lenient) ==
    IF ~stock.ok THEN Rejected
    ELSE CombineLinked(task, form, stock, NewDate(form.valueDate, lenient), west)

\* From `const form = formsMap.get(task.formId)` on.
CombineWithForm(task, form, stocks, west, lenient) ==
    IF ~form.ok THEN Rejected
    ELSE CombineWithStock(task, form, StocksMapGet(stocks, form.cik), west, lenient)

\* The body of the forEach over sanitizedTasks for a task whose formId was
\* not seen before: the CombinedRecord pushed, or Rejected for a return.
CombineTask(task, stocks, forms, west, lenient) ==
    CombineWithForm(task, FormsMapGet(forms, task.formId), stocks, west, lenient)

\* combinedData.push(rec), unless the callback returned early.
PushIfOk(rec, rest) == IF rec.ok THEN <<rec>> \o rest ELSE rest

\* processedFormIds once rec is pushed.
MarkIfOk(rec, processedFormIds, formId) ==
    IF rec.ok THEN processedFormIds \cup {formId} ELSE processedFormIds

\* A mutant of CombineTasks: a formId is marked as processed only when its
\* row is pushed.
RECURSIVE CombineTasksMarkOnPush(_, _, _, _, _, _, _)
CombineTasksMarkOnPush(tasks, i, processedFormIds, stocks, forms, west, lenient) ==
    IF i > Len(tasks) THEN <<>>
    ELSE IF tasks[i].formId \in processedFormIds
    THEN CombineTasksMarkOnPush(tasks, i + 1, processedFormIds, stocks, forms,
                                west, lenient)
    ELSE PushIfOk(CombineTask(tasks[i], stocks, forms, west, lenient),
                  CombineTasksMarkOnPush(
                      tasks, i + 1,
                      MarkIfOk(CombineTask(tasks[i], stocks, forms, west, lenient),
                               processedFormIds, tasks[i].formId),
                      stocks, forms, west, lenient))

\* sanitizedTasks.forEach(...) from task i on: the records pushed on
\* combinedData, in order.
RECURSIVE CombineTasks(_, _, _, _, _, _, _)
CombineTasks(tasks, i, processedFormIds, stocks, forms, west, lenient) ==
    IF i > Len(tasks) THEN <<>>
    ELSE IF tasks[i].formId \in processedFormIds
    THEN CombineTasks(tasks, i + 1, processedFormIds, stocks, forms, west, lenient)
    ELSE PushIfOk(CombineTask(tasks[i], stocks, forms, west, lenient),
                  CombineTasks(tasks, i + 1,
                               processedFormIds \cup {tasks[i].formId},
                               stocks, forms, west, lenient))

\* A mutant of InsertByDate: item goes before the elements of its own date.
RECURSIVE InsertBeforeTies(_, _)
InsertBeforeTies(sorted, item) ==
    IF sorted = <<>> THEN <<item>>
    ELSE IF DateCompare(sorted[Len(sorted)].date, item.date) < 0
    THEN Append(sorted, item)
    ELSE Append(InsertBeforeTies(SubSeq(sorted, 1, Len(sorted) - 1), item),
                sorted[Len(sorted)])

\* One step of a stable sort by date: item goes after every element whose
\* date is not later than its own.
RECURSIVE InsertByDate(_, _)
InsertByDate(sorted, item) ==
    IF sorted = <<>> THEN <<item>>
    ELSE IF DateCompare(sorted[Len(sorted)].date, item.date) <= 0
    THEN Append(sorted, item)
    ELSE Append(InsertByDate(SubSeq(sorted, 1, Len(sorted) - 1), item),
                sorted[Len(sorted)])

\* items.sort((a, b) => new Date(a.date) - new Date(b.date)), a stable sort.
RECURSIVE SortFrom(_, _, _)
SortFrom(items, i, acc) ==
    IF i > Len(items) THEN acc
    ELSE SortFrom(items, i + 1, InsertByDate(acc, items[i]))

SortByDate(items) == SortFrom(items, 1, <<>>)

\* Code-unit order of the characters of the model.
CharOrder ==
    <<" ", "&", "-", ".", "/", "0", "1", "2", "3", "4", "5", "6", "7", "8",
      "9", ":", "<", ">", "A", "B", "C", "D", "Q", "X", "Z", "_", "a", "b", "c", "d",
      "e", "f", "g", "h", "i", "j", "k", "l", "m", "n", "o", "p", "q", "r",
      "s", "t", "u", "v", "w", "x", "y", "z">>
CharCode(c) == IndexOf(CharOrder, c, 1)

\* a < b as JavaScript compares strings.
RECURSIVE StringLess(_, _)
StringLess(a, b) ==
    IF b = <<>> THEN FALSE
    ELSE IF a = <<>> THEN TRUE
    ELSE IF Head(a) = Head(b) THEN StringLess(Tail(a), Tail(b))
    ELSE CharCode(Head(a)) < CharCode(Head(b))

\* The least string of the non-empty set S.
LeastString(S) == CHOOSE x \in S : \A y \in S \ {x} : StringLess(x, y)

\* The strings of the set S in ascending order (Array.prototype.sort with
\* no comparator, on distinct strings).
RECURSIVE SortStrings(_)
SortStrings(S) ==
    IF S = {} THEN <<>>
    ELSE <<LeastString(S)>> \o SortStrings(S \ {LeastString(S)})

\* The numbers of the set S in ascending order (sort((a, b) => a - b)).
RECURSIVE SortNumbers(_)
SortNumbers(S) ==
    IF S = {} THEN <<>>
    ELSE <<MinOf(S)>> \o SortNumbers(S \ {MinOf(S)})

\* A property name that is an array index ("0", "7", "12"): such keys come
\* first, in numeric order, in Object.keys.
IsIndexKey(s) ==
    /\ s # <<>> /\ Len(s) <= 9
    /\ \A i \in DOMAIN s : s[i] \in Digits
    /\ (Len(s) = 1 \/ s[1] # "0")

\* Names that every object inherits from Object.prototype: `groupedData[k]`
\* is truthy for them although groupedData has no such key of its own.
InheritedKeys ==
    { <<"c", "o", "n", "s", "t", "r", "u", "c", "t", "o", "r">>,
      <<"v", "a", "l", "u", "e", "O", "f">>,
      <<"_", "_", "p", "r", "o", "t", "o", "_", "_">> }

\* The distinct elements of a sequence, in order of first appearance.
RECURSIVE Distinct(_, _, _)
Distinct(xs, i, acc) ==
    IF i > Len(xs) THEN acc
    ELSE IF \E j \in DOMAIN acc : acc[j] = xs[i]
    THEN Distinct(xs, i + 1, acc)
    ELSE Distinct(xs, i + 1, Append(acc, xs[i]))

\* The numbers, each as its decimal string.
NumberStrings(numbers) == [i \in DOMAIN numbers |-> NatToString(numbers[i])]

\* Object.keys of an object whose keys were created in the order `created`:
\* the integer-like keys first, ascending, then the others as created.
ObjectKeys(created) ==
    NumberStrings(SortNumbers({ParseInt(Str(created[i])).n :
                                 i \in {j \in DOMAIN created : IsIndexKey(created[j])}}))
      \o SelectSeq(created, LAMBDA k : ~IsIndexKey(k))

\* A mutant of GroupsOf: every group holds every record.
GroupsOfEveryRecord(combinedData, keys) ==
    [k \in DOMAIN keys |-> [company |-> keys[k], items |-> combinedData]]

\* The entries of groupedData for the keys `keys`.
GroupsOf(combinedData, keys) ==
    [k \in DOMAIN keys |->
       [company |-> keys[k],
        items |-> SelectSeq(combinedData, LAMBDA r : r.company = keys[k])]]

\* combinedData.forEach(item => groupedData[item.company].push(item)):
\* groupedData as the sequence of its entries in Object.keys order.
GroupByCompany(combinedData) ==
    GroupsOf(combinedData,
             ObjectKeys(Distinct([i \in DOMAIN combinedData |-> combinedData[i].company],
                                 1, <<>>)))

Failure(cause) == [ok |-> FALSE, prefix |-> "Data processing failed: ", cause |-> cause]

\* sanitizedStocks
SanitizeStocks(stocksData) ==
    Accepted([i \in DOMAIN stocksData |-> sanitizeStockData(stocksData[i])])

\* sanitizedForms
SanitizeForms(formsData, west, lenient) ==
    Accepted([i \in DOMAIN formsData |->
                sanitizeFormData(formsData[i], west, lenient)])

\* sanitizedTasks
SanitizeTasks(tasksData) ==
    Accepted([i \in DOMAIN tasksData |-> sanitizeTaskData(tasksData[i])])

YearsOf(combinedData) == {combinedData[i].year : i \in DOMAIN combinedData}

\* From the grouping on: the companies, the years and the returned Dataset.
BuildDataset(combinedData, groupedData) ==
    IF \/ Len(SortStrings({groupedData[k].company : k \in DOMAIN groupedData})) = 0
       \/ Len(SortNumbers(YearsOf(combinedData))) = 0
    THEN Failure("No companies or years found in processed data")
    ELSE [ok |-> TRUE,
          combinedData |-> combinedData,
          groupedData |-> groupedData,
          companies |->
              SortStrings({groupedData[k].company : k \in DOMAIN groupedData}),
          dateRange |-> [min |-> MinOf(YearsOf(combinedData)),
                         max |-> MaxOf(YearsOf(combinedData))],
          stats |-> [totalRecords |-> Len(combinedData),
                     companiesCount |-> Len(groupedData),
                     yearsSpan |-> Cardinality(YearsOf(combinedData))]]

\* From the emptiness check on: sort, then group.  Grouping a company whose
\* name Object.prototype defines calls `push` on the inherited value, which
\* throws a TypeError.
Aggregate(combined) ==
    IF Len(combined) = 0
    THEN Failure("No valid data after processing and validation")
    ELSE IF \E i \in DOMAIN combined : combined[i].company \in InheritedKeys
    THEN Failure("groupedData[item.company].push is not a function")
    ELSE BuildDataset(SortByDate(combined), GroupByCompany(SortByDate(combined)))

\* From the size limits on.
JoinSanitized(sanitizedStocks, sanitizedForms, sanitizedTasks, west, lenient) ==
    IF Len(sanitizedStocks) > MaxStockRecords
    THEN Failure("Too many stock records")
    ELSE IF Len(sanitizedForms) > MaxFormRecords
    THEN Failure("Too many form records")
    ELSE IF Len(sanitizedTasks) > MaxTaskRecords
    THEN Failure("Too many task records")
    ELSE Aggregate(CombineTasks(sanitizedTasks, 1, {}, sanitizedStocks,
                                sanitizedForms, west, lenient))

\* The body of processSecureFinancialData after `await Promise.all`.
ProcessLoaded(stocksData, formsData, tasksData, west, lenient) ==
    JoinSanitized(SanitizeStocks(stocksData),
                  SanitizeForms(formsData, west, lenient),
                  SanitizeTasks(tasksData),
                  west, lenient)

(***************************************************************************)
(* secureFilterData                                                        *)
(***************************************************************************)
Thrown(message) == [ok |-> FALSE, error |-> message]

\* A mutant of InQuarterRange: the quarter bounds are applied in every year.
InQuarterRangeEveryYear(item, startYear, endYear, startQuarter, endQuarter) ==
    /\ item.year >= startYear /\ item.year <= endYear
    /\ item.quarter >= startQuarter /\ item.quarter <= endQuarter

\* The callback of groupedData[company].filter(...).
InQuarterRange(item, startYear, endYear, startQuarter, endQuarter) ==
    LET isInYearRange == item.year >= startYear /\ item.year <= endYear
    IN  IF item.year = startYear /\ item.year = endYear
        THEN isInYearRange /\ item.quarter >= startQuarter
                           /\ item.quarter <= endQuarter
        ELSE IF item.year = startYear
        THEN isInYearRange /\ item.quarter >= startQuarter
        ELSE IF item.year = endYear
        THEN isInYearRange /\ item.quarter <= endQuarter
        ELSE isInYearRange

\* selectedCompanies.map(c => validateString(c, 200)).filter(Boolean)
\* The strings of a sequence of Str values.
StringsOf(values) == [i \in DOMAIN values |-> values[i].s]

SanitizedCompanies(items) ==
    StringsOf(SelectSeq([i \in DOMAIN items |->
                           validateString(items[i], CompanyNameMaxLen)],
                        LAMBDA v : ~Falsy(v)))

\* sanitizedCompanies.length === 0 || sanitizedCompanies.includes(company)
CompanySelected(sanitizedCompanies, company) ==
    \/ Len(sanitizedCompanies) = 0
    \/ \E i \in DOMAIN sanitizedCompanies : sanitizedCompanies[i] = company

\* `filtered` after Object.keys(groupedData).forEach(...), from key k on.
RECURSIVE FilteredFrom(_, _, _, _, _, _, _)
FilteredFrom(groupedData, k, sanitizedCompanies, sy, ey, sq, eq) ==
    IF k > Len(groupedData) THEN <<>>
    ELSE (IF CompanySelected(sanitizedCompanies, groupedData[k].company)
          THEN SelectSeq(groupedData[k].items,
                         LAMBDA item : InQuarterRange(item, sy, ey, sq, eq))
          ELSE <<>>)
         \o FilteredFrom(groupedData, k + 1, sanitizedCompanies, sy, ey, sq, eq)

\* A default parameter value: used when the argument is undefined.
DefaultTo(value, dflt) == IF value.t = "undefined" THEN dflt ELSE value

\* A mutant of LimitAndSort: the capped branch returns the slice unsorted.
LimitUnsorted(filtered) ==
    IF Len(filtered) > ResultCap THEN SubSeq(filtered, 1, ResultCap)
    ELSE SortByDate(filtered)

\* The end of secureFilterData: slice to the cap, then sort.
LimitAndSort(filtered) ==
    IF Len(filtered) > ResultCap THEN SortByDate(SubSeq(filtered, 1, ResultCap))
    ELSE SortByDate(filtered)

\* What secureFilterData returns; `filtered`, the matches before the cap, is
\* kept beside it for the properties that speak of it.
Returned(filtered) ==
    [ok |-> TRUE, filtered |-> filtered, records |-> LimitAndSort(filtered)]

\* A mutant of FilterValidated: a selection of exactly the limit is refused.
FilterValidatedStrictLimit(groupedData, selectedCompanies, validStartYear, validEndYear, validStartQuarter, validEndQuarter) ==
    IF \/ Falsy(validStartYear) \/ Falsy(validEndYear)
       \/ Falsy(validStartQuarter) \/ Falsy(validEndQuarter)
    THEN Thrown("Invalid filter parameters")
    ELSE IF validStartYear.n > validEndYear.n
    THEN Thrown("Start year cannot be after end year")
    ELSE IF ~selectedCompanies.isArray
    THEN Thrown("Selected companies must be an array")
    ELSE IF Len(selectedCompanies.items) >= MaxSelectedCompanies
    THEN Thrown("Too many companies selected")
    ELSE Returned(FilteredFrom(groupedData, 1,
                               SanitizedCompanies(selectedCompanies.items),
                               validStartYear.n, validEndYear.n,
                               validStartQuarter.n, validEndQuarter.n))

\* secureFilterData from its first check on, given the validated scalars.
FilterValidated(groupedData, selectedCompanies, validStartYear, validEndYear, validStartQuarter, validEndQuarter) ==
    IF \/ Falsy(validStartYear) \/ Falsy(validEndYear)
       \/ Falsy(validStartQuarter) \/ Falsy(validEndQuarter)
    THEN Thrown("Invalid filter parameters")
    ELSE IF validStartYear.n > validEndYear.n
    THEN Thrown("Start year cannot be after end year")
    ELSE IF ~selectedCompanies.isArray
    THEN Thrown("Selected companies must be an array")
    ELSE IF Len(selectedCompanies.items) > MaxSelectedCompanies
    THEN Thrown("Too many companies selected")
    ELSE Returned(FilteredFrom(groupedData, 1,
                               SanitizedCompanies(selectedCompanies.items),
                               validStartYear.n, validEndYear.n,
                               validStartQuarter.n, validEndQuarter.n))

\* selectedCompanies is [isArray, items]; the years and quarters are JS values.
secureFilterData(groupedData, selectedCompanies, startYear, endYear, startQuarter, endQuarter) ==
    FilterValidated(groupedData, selectedCompanies,
                    validateInteger(startYear, MinYear, MaxYear),
                    validateInteger(endYear, MinYear, MaxYear),
                    validateInteger(DefaultTo(startQuarter, Num(1)), 1, 4),
                    validateInteger(DefaultTo(endQuarter, Num(4)), 1, 4))

(***************************************************************************)
(* generateSecureQuarterOptions                                            *)
(***************************************************************************)
\* One entry of `quarters`.
QuarterOption(year, quarter) ==
    [value |-> NatToString(year) \o <<"-", "Q">> \o NatToString(quarter),
     label |-> QuarterLabel(quarter, year),
     year |-> year,
     quarter |-> quarter]

\* A mutant of QuartersFrom: the loop stops before maxYear.
QuartersBefore(minYear, maxYear) ==
    [i \in 1..(4 * (maxYear - minYear)) |->
       QuarterOption(minYear + ((i - 1) \div 4), ((i - 1) % 4) + 1)]

\* `quarters` after the two nested loops: the i-th push is that of year
\* minYear + (i - 1) div 4 and quarter (i - 1) mod 4 + 1.
QuartersFrom(minYear, maxYear) ==
    [i \in 1..(4 * (maxYear - minYear + 1)) |->
       QuarterOption(minYear + ((i - 1) \div 4), ((i - 1) % 4) + 1)]

\* generateSecureQuarterOptions from its first check on.
QuarterOptionsValidated(validMinYear, validMaxYear) ==
    IF Falsy(validMinYear) \/ Falsy(validMaxYear)
    THEN Thrown("Invalid year range")
    ELSE IF validMinYear.n > validMaxYear.n
    THEN Thrown("Invalid year range: min > max")
    ELSE IF validMaxYear.n - validMinYear.n > MaxYearSpan
    THEN Thrown("Year range too large")
    ELSE [ok |-> TRUE, quarters |-> QuartersFrom(validMinYear.n, validMaxYear.n)]

generateSecureQuarterOptions(minYear, maxYear) ==
    QuarterOptionsValidated(validateInteger(minYear, MinYear, MaxYear),
                            validateInteger(maxYear, MinYear, MaxYear))

(***************************************************************************)
(* State                                                                   *)
(***************************************************************************)
VARIABLES
    tzWest,        \* environment: the local time zone is west of Greenwich
    lenientDates,  \* environment: the engine rolls a day past month end over
    clock,         \* time since the three loads were started
    loads,         \* per file: the state of its loadSecureCSV call
    result,        \* the promise of processSecureFinancialData
    call,          \* the secureFilterData call made on the dataset, if any
    dash           \* the state of the Dashboard component, if mounted

vars == <<tzWest, lenientDates, clock, loads, result, call, dash>>

Files == {"stocks", "forms", "tasks"}

\* ALLOWED_COLUMNS
AllowedColumns ==
    [stocks |-> {"Symbol", "CompanyName", "CIK"},
     forms |-> {"id", "FormName", "CIK", "ValueDate", "FilingDate", "FormURL"},
     tasks |-> {"Form_id", "TextListLen", "TableIndex", "SumDivider",
                "JsonTable", "ValueColumn", "CCP", "LTD"}]

\* The timeout of loadSecureCSV (30000 ms); the clock counts units of 10 s.
LoadTimeout == 3
\* The clock stops here.
MaxClock == 4

(***************************************************************************)
(* loadSecureCSV and the Promise.all of processSecureFinancialData.        *)
(* phase: "fetching" (awaiting fetch, timer armed), "reading" (awaiting    *)
(* response.text(), timer cleared), "done".  A promise settles once:       *)
(* later resolve/reject calls change nothing.  The reactions to a settled  *)
(* promise are microtasks, which run before any other event is handled,    *)
(* so each action includes them.                                           *)
(***************************************************************************)
Pending == [state |-> "pending"]

LoadStarted ==
    [phase |-> "fetching", timer |-> TRUE, promise |-> "pending",
     data |-> <<>>, error |-> ""]

LoadResolved(rows) ==
    [phase |-> "done", timer |-> FALSE, promise |-> "resolved",
     data |-> rows, error |-> ""]

RejectLoad(load, message) ==
    IF load.promise = "pending"
    THEN [load EXCEPT !.promise = "rejected", !.error = message]
    ELSE load

ResolveLoad(load, rows) ==
    IF load.promise = "pending"
    THEN [load EXCEPT !.promise = "resolved", !.data = rows]
    ELSE load

\* The settled promise of the run for the outcome of ProcessLoaded.
RunOutcome(out) ==
    IF out.ok THEN [state |-> "fulfilled", value |-> out]
    ELSE [state |-> "rejected", value |-> out]

\* The run rejected by the rejection of load f.
RunRejectedBy(ls, f) == [state |-> "rejected", value |-> Failure(ls[f].error)]

\* A mutant of AwaitAll: the run goes on as soon as the tasks file is loaded.
AwaitTasksOnly(ls, res, west, lenient) ==
    IF res.state # "pending" THEN res
    ELSE IF \E f \in Files : ls[f].promise = "rejected"
    THEN RunRejectedBy(ls, CHOOSE g \in Files : ls[g].promise = "rejected")
    ELSE IF ls["tasks"].promise = "resolved"
    THEN RunOutcome(ProcessLoaded(ls["stocks"].data, ls["forms"].data,
                                  ls["tasks"].data, west, lenient))
    ELSE res

\* `await Promise.all([...])` and what follows it in
\* processSecureFinancialData, given the loads' promises: the first
\* rejection rejects the run, the last resolution starts the processing.
AwaitAll(ls, res, west, lenient) ==
    IF res.state # "pending" THEN res
    ELSE IF \E f \in Files : ls[f].promise = "rejected"
    THEN RunRejectedBy(ls, CHOOSE g \in Files : ls[g].promise = "rejected")
    ELSE IF \A f \in Files : ls[f].promise = "resolved"
    THEN RunOutcome(ProcessLoaded(ls["stocks"].data, ls["forms"].data,
                                  ls["tasks"].data, west, lenient))
    ELSE res

\* The loads become ls; the run reacts.
Settle(ls) ==
    /\ loads' = ls
    /\ result' = AwaitAll(ls, result, tzWest, lenientDates)
    /\ UNCHANGED <<tzWest, lenientDates, clock, call, dash>>

\* The load after the checks on the response, the timer being cleared.
CheckResponse(cleared, response) ==
    IF ~response.ok
    THEN RejectLoad([cleared EXCEPT !.phase = "done"], "HTTP error")
    ELSE IF ~response.typeOk
    THEN RejectLoad([cleared EXCEPT !.phase = "done"], "Invalid content type")
    ELSE IF ~response.lengthOk
    THEN RejectLoad([cleared EXCEPT !.phase = "done"], "File too large")
    ELSE [cleared EXCEPT !.phase = "reading"]

\* fetch resolves with a response: the timer is cleared, then the status,
\* the content type and the declared length are checked.
FetchResponds(f, response) ==
    /\ loads[f].phase = "fetching"
    /\ Settle([loads EXCEPT
                 ![f] = CheckResponse([loads[f] EXCEPT !.timer = FALSE], response)])

\* fetch rejects (the network fails): the catch rejects the load; the timer
\* was not cleared.
FetchFails(f) ==
    /\ loads[f].phase = "fetching"
    /\ Settle([loads EXCEPT
                 ![f] = RejectLoad([loads[f] EXCEPT !.phase = "done"],
                                   "Failed to fetch")])

\* Papa.parse's `complete` callback on the parsed rows.
ParseComplete(load, rows, expectedColumns) ==
    IF Len(rows) = 0 THEN RejectLoad(load, "Empty CSV file")
    ELSE IF \E col \in expectedColumns : col \notin DOMAIN rows[1]
    THEN RejectLoad(load, "Missing required columns")
    ELSE ResolveLoad(load, rows)

\* The load after the checks on the body.
CheckBody(done, body, expectedColumns) ==
    IF body.tooLarge THEN RejectLoad(done, "File content too large")
    ELSE ParseComplete(done, Substring0(body.rows, MAX_ROWS), expectedColumns)

\* response.text() resolves: the size is checked, the text parsed (at most
\* MAX_ROWS rows of it) and the rows checked.
BodyArrives(f, body) ==
    /\ loads[f].phase = "reading"
    /\ Settle([loads EXCEPT
                 ![f] = CheckBody([loads[f] EXCEPT !.phase = "done"], body,
                                  AllowedColumns[f])])

\* response.text() rejects.
BodyFails(f) ==
    /\ loads[f].phase = "reading"
    /\ Settle([loads EXCEPT
                 ![f] = RejectLoad([loads[f] EXCEPT !.phase = "done"],
                                   "Failed to read body")])

\* The timer fires: controller.abort(), then reject('Request timeout').
\* An aborted fetch rejects, which ends the load's body.
Timeout(f) ==
    /\ loads[f].timer
    /\ clock >= LoadTimeout
    /\ Settle([loads EXCEPT
                 ![f] = RejectLoad([loads[f] EXCEPT !.timer = FALSE,
                                                    !.phase = "done"],
                                   "Request timeout")])

\* Time passes; a timer that is due fires before time passes on.
Tick ==
    /\ clock < MaxClock
    /\ ~\E f \in Files : loads[f].timer /\ clock >= LoadTimeout
    /\ clock' = clock + 1
    /\ UNCHANGED <<tzWest, lenientDates, loads, result, call, dash>>

(***************************************************************************)
(* Inputs: the rows the three files may hold.                              *)
(***************************************************************************)
StockRow(symbol, companyName, cik) ==
    [Symbol |-> Str(symbol), CompanyName |-> Str(companyName), CIK |-> Str(cik)]

FormRow(id, cik, valueDate, formURL) ==
    [id |-> Str(id), FormName |-> Str(<<"1", "0", "-", "Q">>), CIK |-> Str(cik),
     ValueDate |-> Str(valueDate), FilingDate |-> Str(valueDate),
     FormURL |-> Str(formURL)]

TaskRow(formId, ccp, ltd) ==
    [Form_id |-> Str(formId), TextListLen |-> Str(<<>>), TableIndex |-> Str(<<>>),
     SumDivider |-> Str(<<>>), JsonTable |-> Str(<<>>), ValueColumn |-> Str(<<>>),
     CCP |-> Str(ccp), LTD |-> Str(ltd)]

\* "YYYY-MM-DD" as a file writes it (the day is not checked here).
DateText(y, m, d) == ToISODate(<<y, m, d>>)

SecUrl == <<"h", "t", "t", "p", "s", ":", "/", "/", "s", "e", "c", ".", "g", "o", "v", "/", "x">>
HttpUrl == <<"h", "t", "t", "p", ":", "/", "/", "s", "e", "c", ".", "g", "o", "v", "/", "x">>

\* A company name of 201 characters whose 200th character is a space.
LongName == [i \in 1..201 |-> IF i = 200 THEN " " ELSE "a"]
ProtoName == <<"c", "o", "n", "s", "t", "r", "u", "c", "t", "o", "r">>

\* Sequences of 1..n elements of S.
SeqsUpTo(S, n) == UNION {[1..k -> S] : k \in 1..n}

\* The most task rows of a file of JoinSpec.
MaxTaskRows == 2

StockA == StockRow(<<"A">>, <<"A">>, <<"1">>)
StockB == StockRow(<<"B">>, <<"B">>, <<"2">>)
StockC1 == StockRow(<<"C">>, <<"C">>, <<"1">>)
StockDirtyB == StockRow(<<"B">>, <<" ", "<", "B", ">">>, <<"3">>)
StockBadCik == StockRow(<<"X">>, <<"X">>, <<"0">>)
StockProto == StockRow(<<"P">>, ProtoName, <<"2">>)
StockLong == StockRow(<<"L">>, LongName, <<"3">>)

JoinStockFiles ==
    { <<StockA>>, <<StockA, StockB>>, <<StockA, StockC1>>,
      <<StockBadCik, StockB>>, <<StockA, StockProto>>,
      <<StockA, StockB, StockDirtyB>> }

Form1 == FormRow(<<"1">>, <<"1">>, DateText(2020, 12, 31), SecUrl)
Form2 == FormRow(<<"2">>, <<"2">>, DateText(2021, 1, 1), SecUrl)
Form1Later == FormRow(<<"1">>, <<"2">>, DateText(2021, 6, 30), SecUrl)
Form3Http == FormRow(<<"3">>, <<"1">>, DateText(2020, 3, 31), HttpUrl)
Form3Feb30 == FormRow(<<"3">>, <<"1">>, DateText(2020, 2, 30), SecUrl)
Form3 == FormRow(<<"3">>, <<"3">>, DateText(2020, 12, 31), SecUrl)
Form2NoCompany == FormRow(<<"2">>, <<"9">>, DateText(2021, 1, 1), SecUrl)

JoinFormFiles ==
    { <<Form1>>, <<Form1, Form2>>, <<Form1, Form1Later>>, <<Form1, Form3Feb30>>,
      <<Form3Http, Form2>>, <<Form1, Form2NoCompany>>, <<Form1, Form2, Form3>> }

JoinTaskRows ==
    { TaskRow(<<"1">>, <<"5">>, <<"7">>),
      TaskRow(<<"1">>, <<"2", "0", "0", "0">>, <<"7">>),
      TaskRow(<<"1">>, <<"6">>, <<"8">>),
      TaskRow(<<"2">>, <<"0">>, <<"3">>),
      TaskRow(<<"3">>, <<"4">>, <<"1", "0", "0", "0">>),
      TaskRow(<<"9">>, <<"1">>, <<"1">>),
      TaskRow(<<"1">>, <<"x">>, <<"1">>) }

JoinTaskFiles == SeqsUpTo(JoinTaskRows, MaxTaskRows)

\* The files of Spec, whose subject is the loading.
LoadBodies(f) ==
    { [tooLarge |-> TRUE, rows |-> <<>>],
      [tooLarge |-> FALSE, rows |-> <<>>],
      [tooLarge |-> FALSE, rows |-> <<[Symbol |-> Str(<<"A">>)]>>] }
    \cup { [tooLarge |-> FALSE, rows |-> rows] : rows \in
             CASE f = "stocks" -> {<<StockA>>}
               [] f = "forms" -> {<<Form1>>}
               [] f = "tasks" -> {<<TaskRow(<<"1">>, <<"5">>, <<"7">>)>>,
                                  <<TaskRow(<<"9">>, <<"1">>, <<"1">>)>>} }

Responses ==
    { [ok |-> TRUE, typeOk |-> TRUE, lengthOk |-> TRUE],
      [ok |-> FALSE, typeOk |-> TRUE, lengthOk |-> TRUE],
      [ok |-> TRUE, typeOk |-> FALSE, lengthOk |-> TRUE],
      [ok |-> TRUE, typeOk |-> TRUE, lengthOk |-> FALSE] }

(***************************************************************************)
(* Spec: a run of processSecureFinancialData from the start of its three   *)
(* loads.                                                                  *)
(***************************************************************************)
NoCall == [state |-> "none"]

\* No Dashboard is mounted.
NoDashboard == [mounted |-> FALSE]

Init ==
    /\ tzWest \in BOOLEAN
    /\ lenientDates \in BOOLEAN
    /\ clock = 0
    /\ loads = [f \in Files |-> LoadStarted]
    /\ result = Pending
    /\ call = NoCall
    /\ dash = NoDashboard

Next ==
    \/ \E f \in Files, response \in Responses : FetchResponds(f, response)
    \/ \E f \in Files : FetchFails(f)
    \/ \E f \in Files : \E body \in LoadBodies(f) : BodyArrives(f, body)
    \/ \E f \in Files : BodyFails(f)
    \/ \E f \in Files : Timeout(f)
    \/ Tick

Spec == Init /\ [][Next]_vars

(***************************************************************************)
(* JoinSpec: the stocks and forms files are loaded, the tasks file is      *)
(* being read; its arrival starts the processing.                          *)
(***************************************************************************)
JoinInit ==
    /\ tzWest \in BOOLEAN
    /\ lenientDates \in BOOLEAN
    /\ clock = 0
    /\ \E stocks \in JoinStockFiles, forms \in JoinFormFiles :
         loads = [stocks |-> LoadResolved(stocks),
                  forms |-> LoadResolved(forms),
                  tasks |-> [LoadStarted EXCEPT !.phase = "reading",
                                                !.timer = FALSE]]
    /\ result = Pending
    /\ call = NoCall
    /\ dash = NoDashboard

TasksArrive ==
    \E rows \in JoinTaskFiles :
        BodyArrives("tasks", [tooLarge |-> FALSE, rows |-> rows])

JoinNext == TasksArrive

JoinSpec == JoinInit /\ [][JoinNext]_vars

(***************************************************************************)
(* FilterSpec: secureFilterData called once on a groupedData.  The         *)
(* groupings are those the join builds from small files.  The function is  *)
(* exported and takes any grouping; ResultCap is scaled down so that the   *)
(* groupings here can hold more matches than the cap.  (A Dataset built by *)
(* processSecureFinancialData holds at most MaxFormRecords records, which  *)
(* in the source equals the cap of 5000.)                                  *)
(***************************************************************************)
FilterStocks ==
    << StockRow(<<"B">>, <<"B">>, <<"1">>), StockRow(<<"A">>, <<"A">>, <<"2">>),
       StockLong >>

FilterForms ==
    << FormRow(<<"1">>, <<"1">>, DateText(2020, 3, 31), SecUrl),
       FormRow(<<"2">>, <<"1">>, DateText(2020, 12, 31), SecUrl),
       FormRow(<<"3">>, <<"2">>, DateText(2021, 6, 30), SecUrl),
       FormRow(<<"4">>, <<"2">>, DateText(2022, 1, 1), SecUrl),
       FormRow(<<"5">>, <<"1">>, DateText(2022, 9, 30), SecUrl),
       FormRow(<<"6">>, <<"3">>, DateText(2020, 12, 31), SecUrl) >>

\* A tasks file with one valid row per form id of ids.
TasksFor(ids) == [i \in DOMAIN ids |-> TaskRow(NatToString(ids[i]), <<"5">>, <<"7">>)]

FilterTaskFiles ==
    { TasksFor(<<1, 2, 3, 4, 5>>), TasksFor(<<3, 1>>), TasksFor(<<6, 2>>),
      TasksFor(<<4>>), TasksFor(<<6, 5, 4, 3, 2, 1>>) }

FilterYears == {Num(y) : y \in {1899, 1900, 2020, 2021, 2022, 2030, 2031}}
FilterQuarters == {Num(q) : q \in {0, 1, 2, 4, 5}} \cup {Undefined}

Array(items) == [isArray |-> TRUE, items |-> items]
NotAnArray == [isArray |-> FALSE, items |-> <<>>]
Repeat(value, n) == [i \in 1..n |-> value]
StrValues(strings) == [i \in DOMAIN strings |-> Str(strings[i])]

\* The selections tried on a Dataset with the companies list `companies`.
Selections(companies) ==
    { Array(<<>>), Array(StrValues(companies)), Array(<<Str(<<"A">>)>>),
      Array(<<Str(<<"<", "B">>), Undefined>>),
      Array(<<Str(<<"<", ">">>)>>),
      Array(Repeat(Str(<<"A">>), MaxSelectedCompanies)),
      Array(Repeat(Str(<<"A">>), MaxSelectedCompanies + 1)),
      NotAnArray }

FilterInit ==
    /\ tzWest \in BOOLEAN
    /\ lenientDates = FALSE
    /\ clock = 0
    /\ \E tasks \in FilterTaskFiles :
         loads = [stocks |-> LoadResolved(FilterStocks),
                  forms |-> LoadResolved(FilterForms),
                  tasks |-> LoadResolved(tasks)]
    /\ result = AwaitAll(loads, Pending, tzWest, lenientDates)
    /\ call = NoCall
    /\ dash = NoDashboard

\* The call and what it returned or threw.
Call(selectedCompanies, startYear, endYear, startQuarter, endQuarter) ==
    [state |-> "done",
     selectedCompanies |-> selectedCompanies,
     startYear |-> startYear, endYear |-> endYear,
     startQuarter |-> startQuarter, endQuarter |-> endQuarter,
     out |-> secureFilterData(result.value.groupedData, selectedCompanies,
                              startYear, endYear, startQuarter, endQuarter)]

CallFilter ==
    /\ result.state = "fulfilled"
    /\ call = NoCall
    /\ \E selectedCompanies \in Selections(result.value.companies),
          startYear \in FilterYears, endYear \in FilterYears,
          startQuarter \in FilterQuarters, endQuarter \in FilterQuarters :
         call' = Call(selectedCompanies, startYear, endYear, startQuarter, endQuarter)
    /\ UNCHANGED <<tzWest, lenientDates, clock, loads, result, dash>>

FilterNext == CallFilter

FilterSpec == FilterInit /\ [][FilterNext]_vars

(***************************************************************************)
(* Properties of secureFilterData (FilterSpec)                             *)
(***************************************************************************)
SeqToSet(xs) == {xs[i] : i \in DOMAIN xs}

\* The records of the Dataset the call was made on.
DatasetRecords == SeqToSet(result.value.combinedData)

CallReturned == call.state = "done" /\ call.out.ok
CallThrew == call.state = "done" /\ ~call.out.ok

\* The quarter bounds in effect: an omitted bound is 1, respectively 4.
EffectiveStartQuarter == DefaultTo(call.startQuarter, Num(1)).n
EffectiveEndQuarter == DefaultTo(call.endQuarter, Num(4)).n

\* Record r is in the year/quarter range of the call, as the specification
\* words it.
InClaimedRange(r) ==
    /\ call.startYear.n <= r.year /\ r.year <= call.endYear.n
    /\ (r.year = call.startYear.n => r.quarter >= EffectiveStartQuarter)
    /\ (r.year = call.endYear.n => r.quarter <= EffectiveEndQuarter)

\* The company of r is selected by the call.
OfSelectedCompany(r) ==
    CompanySelected(SanitizedCompanies(call.selectedCompanies.items), r.company)

\* The records the call should include.
ClaimedMatches == {r \in DatasetRecords : OfSelectedCompany(r) /\ InClaimedRange(r)}

\* C1 as stated: a call that returns includes a record of a selected company
\* exactly when the record is in the year/quarter range of the call.
C1_IncludesExactlyRange ==
    CallReturned => SeqToSet(call.out.records) = ClaimedMatches

\* C1, amended: when at most ResultCap records (5000 in the source) are in
\* range, a call that returns includes a record of a selected company
\* exactly when the record is in the year/quarter range of the call.
C1_IncludesExactlyRangeUnderCap ==
    (CallReturned /\ Cardinality(ClaimedMatches) <= ResultCap)
        => SeqToSet(call.out.records) = ClaimedMatches

\* C1's case: the range is Q4 2020 alone, the Dataset holds records of 2020
\* outside Q4, and exactly the Q4 2020 records are returned.
C1_Witness ==
    /\ CallReturned
    /\ call.startYear = Num(2020) /\ call.endYear = Num(2020)
    /\ call.startQuarter = Num(4) /\ call.endQuarter = Num(4)
    /\ \E r \in DatasetRecords : r.year = 2020 /\ r.quarter # 4
    /\ call.out.records # <<>>
    /\ \A i \in DOMAIN call.out.records :
         call.out.records[i].year = 2020 /\ call.out.records[i].quarter = 4

\* The company list of the Dataset as a selection.
FullSelection == Array(StrValues(result.value.companies))

\* What the call would have given with an empty selection.
WithEmptySelection ==
    secureFilterData(result.value.groupedData, Array(<<>>), call.startYear,
                     call.endYear, call.startQuarter, call.endQuarter)

\* C2: a call whose selection is the full company list of the Dataset
\* matches the same set of records (before the cap) as the call with the
\* empty selection and the same range.
C2_FullSelectionIsEmptySelection ==
    (call.state = "done" /\ call.selectedCompanies = FullSelection
       /\ WithEmptySelection.ok)
        => /\ call.out.ok
           /\ SeqToSet(call.out.filtered) = SeqToSet(WithEmptySelection.filtered)

\* a's date is not later than b's.
NotLater(a, b) == DateCompare(a.date, b.date) <= 0

\* C3: when more records match than the cap, the call returns the earliest
\* ResultCap matches: no match left out is earlier than a match returned.
C3_CapKeepsEarliest ==
    (CallReturned /\ Len(call.out.filtered) > ResultCap)
        => /\ Len(call.out.records) = ResultCap
           /\ \A r \in SeqToSet(call.out.records) :
                \A m \in SeqToSet(call.out.filtered) \ SeqToSet(call.out.records) :
                    NotLater(r, m)

\* C4: what the call returns is non-decreasing by date, capped or not.
C4_ResultSortedByDate ==
    CallReturned =>
        \A i, j \in DOMAIN call.out.records :
            i < j => NotLater(call.out.records[i], call.out.records[j])

\* C4's case: the cap applied, and the matches were not in date order
\* before the sort.
C4_Witness ==
    /\ CallReturned
    /\ Len(call.out.filtered) > ResultCap
    /\ \E i \in 1..(ResultCap - 1) :
         ~NotLater(call.out.filtered[i], call.out.filtered[i + 1])

YearOutOfRange(y) == y.n < MinYear \/ y.n > MaxYear
QuarterOutOfRange(q) == q < 1 \/ q > 4

\* C5: the call throws exactly when a year is outside [1900, 2030], a
\* quarter is outside [1, 4], the start year is after the end year, the
\* selection is not an array, or it has more than 50 entries.
C5_ThrowsExactlyOnInvalid ==
    call.state = "done" =>
        (CallThrew <=>
            \/ YearOutOfRange(call.startYear) \/ YearOutOfRange(call.endYear)
            \/ QuarterOutOfRange(EffectiveStartQuarter)
            \/ QuarterOutOfRange(EffectiveEndQuarter)
            \/ call.startYear.n > call.endYear.n
            \/ ~call.selectedCompanies.isArray
            \/ Len(call.selectedCompanies.items) > MaxSelectedCompanies)

\* C5's case: a selection of one entry more than the limit (51 in the
\* source), with a valid range, is refused.
C5_Witness ==
    /\ CallThrew
    /\ call.out.error = "Too many companies selected"
    /\ Len(call.selectedCompanies.items) = MaxSelectedCompanies + 1
    /\ call.startYear = Num(MinYear) /\ call.endYear = Num(MaxYear)

(***************************************************************************)
(* Properties of the loading (Spec)                                        *)
(***************************************************************************)
RejectedLoads == {f \in Files : loads[f].promise = "rejected"}

\* C6: under every interleaving of the three loads, a Dataset is returned
\* only when all three loads succeeded, and as soon as a load has failed
\* the run has failed with 'Data processing failed: ' followed by the
\* message of a failed load.
C6_JoinFailsFast ==
    /\ result.state = "fulfilled"
         => /\ \A f \in Files : loads[f].promise = "resolved"
            /\ result.value.ok
    /\ RejectedLoads # {}
         => /\ result.state = "rejected"
            /\ result.value.prefix = "Data processing failed: "
            /\ \E f \in RejectedLoads : result.value.cause = loads[f].error

\* C6's case: the three loads ran side by side; two have succeeded and one
\* has failed, and the run has failed with the cause of that load.
C6_Witness ==
    /\ loads["stocks"].promise = "resolved"
    /\ loads["tasks"].promise = "resolved"
    /\ loads["forms"].promise = "rejected"
    /\ result.state = "rejected"
    /\ result.value.cause = loads["forms"].error

\* C7: once more than the timeout has passed since the loads were started,
\* every load has settled.
C7_SettledAfterTimeout ==
    clock > LoadTimeout => \A f \in Files : loads[f].promise # "pending"

(***************************************************************************)
(* Properties of the join (JoinSpec)                                       *)
(***************************************************************************)
RunSettled == result.state # "pending"
RunSucceeded == result.state = "fulfilled"

LoadedStocks == SanitizeStocks(loads["stocks"].data)
LoadedForms == SanitizeForms(loads["forms"].data, tzWest, lenientDates)
LoadedTasks == SanitizeTasks(loads["tasks"].data)

\* The metric row links through a filing to a company and passes the
\* bounds: processed on its own, it gives a record.
Survives(task) ==
    CombineTask(task, LoadedStocks, LoadedForms, tzWest, lenientDates).ok

\* C8: with three successful loads within the record limits, the run
\* succeeds exactly when at least one metric row links through a filing to
\* a company and passes the bounds.
C8_RowFaultsNeverFailRun ==
    (RunSettled /\ \A f \in Files : loads[f].promise = "resolved")
        => (RunSucceeded <=> \E i \in DOMAIN LoadedTasks : Survives(LoadedTasks[i]))

\* The first metric row, in encounter order, with the formId.
FirstRowOf(formId) ==
    LoadedTasks[MinOf({i \in DOMAIN LoadedTasks : LoadedTasks[i].formId = formId})]

\* C9: combinedData holds at most one record per formId, and it carries
\* the ccp and ltd of the first metric row with that formId.
C9_FirstSeenWins ==
    RunSucceeded =>
        /\ \A i, j \in DOMAIN result.value.combinedData :
             i # j => result.value.combinedData[i].id # result.value.combinedData[j].id
        /\ \A r \in SeqToSet(result.value.combinedData) :
             /\ \E i \in DOMAIN LoadedTasks : LoadedTasks[i].formId = r.id
             /\ r.ccp = FirstRowOf(r.id).ccp
             /\ r.ltd = FirstRowOf(r.id).ltd

\* C9's case: two metric rows in bounds share a formId and differ in ccp;
\* the record of that formId is in combinedData.
C9_Witness ==
    /\ RunSucceeded
    /\ \E i, j \in DOMAIN LoadedTasks :
         /\ i < j
         /\ LoadedTasks[i].formId = LoadedTasks[j].formId
         /\ LoadedTasks[i].ccp # LoadedTasks[j].ccp
         /\ Survives(LoadedTasks[i]) /\ Survives(LoadedTasks[j])
         /\ \E r \in SeqToSet(result.value.combinedData) :
              r.id = LoadedTasks[i].formId

\* Record r is copied from the filing and the company.
CopiedFrom(r, form, stock) ==
    /\ r.company = stock.companyName
    /\ r.symbol = stock.symbol
    /\ r.cik = stock.cik
    /\ r.formName = form.formName
    /\ r.formURL = form.formURL
    /\ r.dateString = form.valueDate

\* C10: every record of the Dataset has a sanitized filing of its id and a
\* sanitized company of that filing's cik, from which it is copied; its
\* ccp and ltd are within [0, 1e12]; and there are no more records than
\* metric rows.
C10_LinkedAndInBounds ==
    RunSucceeded =>
        /\ \A r \in SeqToSet(result.value.combinedData) :
             /\ \E form \in SeqToSet(LoadedForms) :
                  /\ form.id = r.id
                  /\ \E stock \in SeqToSet(LoadedStocks) :
                       stock.cik = form.cik /\ CopiedFrom(r, form, stock)
             /\ 0 <= r.ccp /\ r.ccp <= OneTrillion
             /\ 0 <= r.ltd /\ r.ltd <= OneTrillion
        /\ Len(result.value.combinedData) <= Len(LoadedTasks)

\* C10's case: a metric row out of bounds and a dangling one were loaded,
\* and the run gave a Dataset.
C10_Witness ==
    /\ RunSucceeded
    /\ Len(result.value.combinedData) < Len(LoadedTasks)
    /\ \E i \in DOMAIN LoadedTasks :
         LoadedTasks[i].ccp > OneTrillion \/ LoadedTasks[i].ltd > OneTrillion

(***************************************************************************)
(* Properties of the Dataset (JoinSpec)                                    *)
(***************************************************************************)
\* The groups of the Dataset that hold record r.
GroupsHolding(r) ==
    {k \in DOMAIN result.value.groupedData :
       r \in SeqToSet(result.value.groupedData[k].items)}

GroupKeys ==
    {result.value.groupedData[k].company : k \in DOMAIN result.value.groupedData}

\* C11: in every Dataset, groupedData is a partition of combinedData: each
\* record is in exactly one group, the one keyed by its company, once; no
\* group is empty or holds a record that is not in combinedData; and
\* companies is the set of group keys in lexical order.
C11_GroupsPartitionCombined ==
    RunSucceeded =>
        /\ \A r \in SeqToSet(result.value.combinedData) :
             /\ Cardinality(GroupsHolding(r)) = 1
             /\ \A k \in GroupsHolding(r) :
                  /\ result.value.groupedData[k].company = r.company
                  /\ Cardinality({i \in DOMAIN result.value.groupedData[k].items :
                                    result.value.groupedData[k].items[i] = r}) = 1
        /\ \A k \in DOMAIN result.value.groupedData :
             /\ result.value.groupedData[k].items # <<>>
             /\ SeqToSet(result.value.groupedData[k].items)
                  \subseteq SeqToSet(result.value.combinedData)
             /\ \A j \in DOMAIN result.value.groupedData :
                  j # k => result.value.groupedData[j].company
                             # result.value.groupedData[k].company
        /\ SeqToSet(result.value.companies) = GroupKeys
        /\ \A i, j \in DOMAIN result.value.companies :
             i < j => StringLess(result.value.companies[i], result.value.companies[j])

\* C11's case: a Dataset of two companies, listed in lexical order although
\* the later one in that order was grouped first.
C11_Witness ==
    /\ RunSucceeded
    /\ Len(result.value.groupedData) = 2
    /\ result.value.groupedData[1].company = result.value.companies[2]
    /\ result.value.groupedData[2].company = result.value.companies[1]

\* The quarter of a calendar month 1..12.
CalendarQuarter(month) == (month + 2) \div 3

\* C12: the year and the quarter of every record are the calendar year and
\* quarter of its dateString, the quarter is in 1..4, and quarterLabel is
\* 'Q<quarter> <year>'.
C12_QuarterOfValueDate ==
    RunSucceeded =>
        \A r \in SeqToSet(result.value.combinedData) :
            /\ r.dateString = ToISODate(r.date)
            /\ r.year = r.date[1]
            /\ r.quarter = CalendarQuarter(r.date[2])
            /\ r.quarter \in 1..4
            /\ r.quarterLabel = QuarterLabel(r.quarter, r.year)

TaskOptionalFields ==
    {"textListLen", "tableIndex", "sumDivider", "jsonTable", "valueColumn"}

\* C15: every record a sanitizer returns has all its fields present (none
\* null), and a metric row is rejected exactly when Form_id, CCP or LTD
\* fails validation.
C15_SanitizersAllOrNothing ==
    /\ \A i \in DOMAIN LoadedTasks :
         \A f \in TaskOptionalFields : LoadedTasks[i][f].t # "null"
    /\ \A i \in DOMAIN loads["tasks"].data :
         sanitizeTaskData(loads["tasks"].data[i]).ok
           <=> /\ validateInteger(loads["tasks"].data[i].Form_id, 1, MAX_ROWS).t # "null"
               /\ validateNumber(loads["tasks"].data[i].CCP, 0, MaxSafeAmount).t # "null"
               /\ validateNumber(loads["tasks"].data[i].LTD, 0, MaxSafeAmount).t # "null"

\* The place of the first metric row of r's formId.
EncounterOrder(r) ==
    MinOf({i \in DOMAIN LoadedTasks : LoadedTasks[i].formId = r.id})

\* C16: combinedData is in ascending date order, records of one date in
\* the order their metric rows were met; each group is the subsequence of
\* combinedData of its company.
C16_SortedStableGrouped ==
    RunSucceeded =>
        /\ \A i, j \in DOMAIN result.value.combinedData :
             i < j =>
               /\ NotLater(result.value.combinedData[i], result.value.combinedData[j])
               /\ result.value.combinedData[i].date = result.value.combinedData[j].date
                    => EncounterOrder(result.value.combinedData[i])
                         < EncounterOrder(result.value.combinedData[j])
        /\ \A k \in DOMAIN result.value.groupedData :
             result.value.groupedData[k].items
               = SelectSeq(result.value.combinedData,
                           LAMBDA r : r.company = result.value.groupedData[k].company)

\* C16's case: two records of one date, kept in the order of their metric
\* rows.
C16_Witness ==
    /\ RunSucceeded
    /\ Len(result.value.combinedData) = 2
    /\ result.value.combinedData[1].date = result.value.combinedData[2].date
    /\ result.value.combinedData[1].id = LoadedTasks[1].formId
    /\ result.value.combinedData[2].id = LoadedTasks[2].formId

(***************************************************************************)
(* The Dashboard component (src/src/components/Dashboard.jsx).  `dash`     *)
(* holds its React state.  A state change is followed by a render and by   *)
(* the filter effect, before any other event is handled, so each action    *)
(* includes the effect.                                                    *)
(***************************************************************************)
\* handleCompanyChange: the most companies a toggle leaves selected; 20 in
\* the source, scaled so that the Datasets of the model can exceed it.
DashboardSelectionLimit == 2

NoError == [set |-> FALSE, prefix |-> "", message |-> ""]
ErrorOf(prefix, message) == [set |-> TRUE, prefix |-> prefix, message |-> message]

\* The state of the component when it mounts (the useState defaults).
MountedDashboard ==
    [mounted |-> TRUE, loading |-> TRUE, error |-> NoError, rawData |-> FALSE,
     selectedCompanies |-> <<>>, selectedMetrics |-> "all",
     dateRange |-> <<0, 0>>, quarterOptions |-> <<>>, chartData |-> <<>>]

\* array.includes(x)
Includes(array, x) == \E i \in DOMAIN array : array[i] = x

\* The places of the items of the quarter `label`.
LabelPlaces(filtered, label) ==
    {i \in DOMAIN filtered : filtered[i].quarterLabel = label}

\* entry[`${item.company}_CCP`] and entry[`${item.company}_LTD`] after the
\* forEach: a later item of the same company and quarter overwrites.
SeriesOf(filtered, places, selectedMetrics) ==
    {<<filtered[i].company, "CCP", filtered[i].ccp>> :
       i \in {j \in places : /\ selectedMetrics \in {"all", "ccp"}
                             /\ ~\E k \in places :
                                   k > j /\ filtered[k].company = filtered[j].company}}
      \cup
    {<<filtered[i].company, "LTD", filtered[i].ltd>> :
       i \in {j \in places : /\ selectedMetrics \in {"all", "ltd"}
                             /\ ~\E k \in places :
                                   k > j /\ filtered[k].company = filtered[j].company}}

\* The entry of chartDataMap for a quarter, created by its first item.
ChartEntry(filtered, first, places, selectedMetrics) ==
    [quarter |-> filtered[first].quarterLabel,
     date |-> filtered[first].date,
     year |-> filtered[first].year,
     quarterNum |-> filtered[first].quarter,
     series |-> SeriesOf(filtered, places, selectedMetrics)]

\* The values of chartDataMap, in insertion order.
ChartEntries(filtered, labels, selectedMetrics) ==
    [k \in DOMAIN labels |->
       ChartEntry(filtered, MinOf(LabelPlaces(filtered, labels[k])),
                  LabelPlaces(filtered, labels[k]), selectedMetrics)]

\* chartArray: the entries sorted by date.
ChartData(filtered, selectedMetrics) ==
    SortByDate(ChartEntries(filtered,
                            Distinct([i \in DOMAIN filtered |-> filtered[i].quarterLabel],
                                     1, <<>>),
                            selectedMetrics))

\* The end of the filter effect: the chart data are set, or the error is.
EffectOutcome(d, out) ==
    IF out.ok THEN [d EXCEPT !.chartData = ChartData(out.records, d.selectedMetrics)]
    ELSE [d EXCEPT !.error = ErrorOf("Filtering failed: ", out.error)]

\* The filter effect on the state d, rawData being the value of res.
FilterEffect(d, res) ==
    IF ~d.rawData \/ Len(d.quarterOptions) = 0 THEN d
    ELSE EffectOutcome(d,
           secureFilterData(res.value.groupedData,
                            [isArray |-> TRUE, items |-> [i \in DOMAIN d.selectedCompanies |-> Str(d.selectedCompanies[i])]],
                            Num(d.quarterOptions[d.dateRange[1] + 1].year),
                            Num(d.quarterOptions[d.dateRange[2] + 1].year),
                            Num(d.quarterOptions[d.dateRange[1] + 1].quarter),
                            Num(d.quarterOptions[d.dateRange[2] + 1].quarter)))

\* loadData after setRawData(data): the axis is built, and the controls are
\* initialized unless that throws.
LoadedWith(d, data, quarters) ==
    IF ~quarters.ok
    THEN [d EXCEPT !.rawData = TRUE, !.error = ErrorOf("", quarters.error),
                   !.loading = FALSE]
    ELSE [d EXCEPT !.rawData = TRUE,
                   !.quarterOptions = quarters.quarters,
                   !.dateRange = <<0, Len(quarters.quarters) - 1>>,
                   !.selectedCompanies = data.companies,
                   !.loading = FALSE]

\* loadData from the settling of processSecureFinancialData on.
loadData(d, res) ==
    IF res.state = "rejected"
    THEN [d EXCEPT !.error = ErrorOf(res.value.prefix, res.value.cause),
                   !.loading = FALSE]
    ELSE LoadedWith(d, res.value,
                    generateSecureQuarterOptions(Num(res.value.dateRange.min),
                                                 Num(res.value.dateRange.max)))

AllCompanies == <<"a", "l", "l">>

\* The updater passed to setSelectedCompanies.
ToggleCompany(prev, company) ==
    IF Includes(prev, company) THEN SelectSeq(prev, LAMBDA c : c # company)
    ELSE Append(prev, company)

LimitSelection(newSelection) ==
    IF Len(newSelection) > DashboardSelectionLimit
    THEN SubSeq(newSelection, 1, DashboardSelectionLimit)
    ELSE newSelection

handleCompanyChange(d, companies, company) ==
    IF company = AllCompanies THEN [d EXCEPT !.selectedCompanies = companies]
    ELSE IF ~Includes(companies, company) THEN d
    ELSE [d EXCEPT !.selectedCompanies = LimitSelection(ToggleCompany(@, company))]

\* A mutant of DateRangeChecked: start and end are not compared.
DateRangeUnordered(d, start, end) ==
    IF start.t = "nan" \/ end.t = "nan" THEN d
    ELSE IF start.n < 0 \/ end.n < 0 THEN d
    ELSE IF start.n >= Len(d.quarterOptions) \/ end.n >= Len(d.quarterOptions) THEN d
    ELSE [d EXCEPT !.dateRange = <<start.n, end.n>>]

\* handleDateRangeChange after the two parseInt calls.
DateRangeChecked(d, start, end) ==
    IF start.t = "nan" \/ end.t = "nan" THEN d
    ELSE IF start.n < 0 \/ end.n < 0 THEN d
    ELSE IF start.n >= Len(d.quarterOptions) \/ end.n >= Len(d.quarterOptions) THEN d
    ELSE IF start.n > end.n THEN d
    ELSE [d EXCEPT !.dateRange = <<start.n, end.n>>]

handleDateRangeChange(d, newStart, newEnd) ==
    DateRangeChecked(d, ParseInt(newStart), ParseInt(newEnd))

ValidMetrics == {"all", "ccp", "ltd"}

handleMetricsChange(d, newMetrics) ==
    IF newMetrics \in ValidMetrics THEN [d EXCEPT !.selectedMetrics = newMetrics]
    ELSE d

\* The controls are rendered: not loading, no error, data present.
ControlsShown == dash.mounted /\ ~dash.loading /\ ~dash.error.set /\ dash.rawData

\* dash becomes d; nothing else changes.
Render(d) ==
    /\ dash' = FilterEffect(d, result)
    /\ UNCHANGED <<tzWest, lenientDates, clock, loads, result, call>>

\* The continuation of `await processSecureFinancialData()` in loadData.
LoadData ==
    /\ dash.mounted /\ dash.loading
    /\ result.state # "pending"
    /\ Render(loadData(dash, result))

HandleCompanyChange(company) ==
    /\ ControlsShown
    /\ Render(handleCompanyChange(dash, result.value.companies, company))

HandleDateRangeChange(newStart, newEnd) ==
    /\ ControlsShown
    /\ Render(handleDateRangeChange(dash, newStart, newEnd))

HandleMetricsChange(newMetrics) ==
    /\ ControlsShown
    /\ Render(handleMetricsChange(dash, newMetrics))

(***************************************************************************)
(* DashSpec: the Dashboard from the settling of the run on.                *)
(***************************************************************************)
DashStocks ==
    << StockRow(<<"A">>, <<"A">>, <<"1">>), StockRow(<<"B">>, <<"B">>, <<"2">>),
       StockRow(<<"C">>, <<"C">>, <<"3">>), StockRow(<<"D">>, <<"D">>, <<"4">>) >>

DashForms ==
    << FormRow(<<"1">>, <<"1">>, DateText(2020, 3, 31), SecUrl),
       FormRow(<<"2">>, <<"2">>, DateText(2020, 12, 31), SecUrl),
       FormRow(<<"3">>, <<"3">>, DateText(2021, 6, 30), SecUrl),
       FormRow(<<"4">>, <<"4">>, DateText(2021, 1, 1), SecUrl),
       FormRow(<<"5">>, <<"1">>, DateText(1960, 6, 30), SecUrl) >>

\* One file with no row that links, one of a single quarter, one of four
\* companies, one that spans sixty years.
DashTaskFiles ==
    { TasksFor(<<9>>), TasksFor(<<1>>), TasksFor(<<2, 1>>),
      TasksFor(<<2, 1, 3, 4>>), TasksFor(<<1, 5>>) }

\* A Dataset of one company more than secureFilterData lets be selected:
\* company Ck has CIK k and one filing, of the first quarter of 2020.
ManyCompanies == MaxSelectedCompanies + 1

ManyStocks ==
    [k \in 1..ManyCompanies |->
       StockRow(<<"C">> \o NatToString(k), <<"C">> \o NatToString(k), NatToString(k))]

ManyForms ==
    [k \in 1..ManyCompanies |->
       FormRow(NatToString(k), NatToString(k), DateText(2020, 3, 31), SecUrl)]

\* The three files the Dashboard may load.
DashFiles ==
    {[stocks |-> DashStocks, forms |-> DashForms, tasks |-> tasks] :
        tasks \in DashTaskFiles}
      \cup
    {[stocks |-> ManyStocks, forms |-> ManyForms,
      tasks |-> TasksFor([k \in 1..ManyCompanies |-> k])]}

\* The values the handlers are called with.
CompanyArguments ==
    {<<"A">>, <<"B">>, <<"C">>, <<"D">>, AllCompanies, <<"Z">>}

IndexArguments ==
    {Num(-1), Num(0), Str(<<"1">>), Num(3), Str(<<"7">>), Num(8),
     Str(<<"x">>), Undefined}

MetricsArguments == {"all", "ccp", "ltd", "cash"}

DashInit ==
    /\ tzWest \in BOOLEAN
    /\ lenientDates = FALSE
    /\ clock = 0
    /\ \E files \in DashFiles :
         loads = [stocks |-> LoadResolved(files.stocks),
                  forms |-> LoadResolved(files.forms),
                  tasks |-> LoadResolved(files.tasks)]
    /\ result = AwaitAll(loads, Pending, tzWest, lenientDates)
    /\ call = NoCall
    /\ dash = MountedDashboard

DashNext ==
    \/ LoadData
    \/ \E company \in CompanyArguments : HandleCompanyChange(company)
    \/ \E newStart \in IndexArguments, newEnd \in IndexArguments :
         HandleDateRangeChange(newStart, newEnd)
    \/ \E newMetrics \in MetricsArguments : HandleMetricsChange(newMetrics)

DashSpec == DashInit /\ [][DashNext]_vars

(***************************************************************************)
(* UtilSpec: generateSecureQuarterOptions or validateURL called once.      *)
(***************************************************************************)
AxisYears ==
    {Num(y) : y \in {1899, 1900, 1949, 1950, 1951, 2019, 2021, 2030, 2031}}
      \cup {Undefined}

EvilSecUrl ==
    <<"h", "t", "t", "p", "s", ":", "/", "/", "e", "v", "i", "l", "s", "e", "c", ".", "g", "o", "v", "/", "x">>
WwwSecUrl ==
    <<"h", "t", "t", "p", "s", ":", "/", "/", "w", "w", "w", ".", "s", "e", "c", ".", "g", "o", "v", "/", "x">>
SecPrefixUrl ==
    <<"h", "t", "t", "p", "s", ":", "/", "/", "s", "e", "c", ".", "g", "o", "v", ".", "e", "v", "i", "l", ".", "c", "o", "m", "/", "x">>
BareSecUrl == <<"h", "t", "t", "p", "s", ":", "/", "/", "s", "e", "c", ".", "g", "o", "v">>
NoSchemeUrl == <<"s", "e", "c", ".", "g", "o", "v", "/", "x">>

UrlValues ==
    {Str(u) : u \in {SecUrl, HttpUrl, EvilSecUrl, WwwSecUrl, SecPrefixUrl,
                     BareSecUrl, NoSchemeUrl, <<>>}}
      \cup {Null, Undefined, Num(7)}

UtilInit ==
    /\ tzWest \in BOOLEAN
    /\ lenientDates \in BOOLEAN
    /\ clock = 0
    /\ loads = [f \in Files |-> LoadStarted]
    /\ result = Pending
    /\ call = NoCall
    /\ dash = NoDashboard

CallQuarterOptions ==
    /\ call = NoCall
    /\ \E minYear \in AxisYears, maxYear \in AxisYears :
         call' = [state |-> "done", fn |-> "generateSecureQuarterOptions",
                  minYear |-> minYear, maxYear |-> maxYear,
                  out |-> generateSecureQuarterOptions(minYear, maxYear)]
    /\ UNCHANGED <<tzWest, lenientDates, clock, loads, result, dash>>

CallValidateURL ==
    /\ call = NoCall
    /\ \E urlString \in UrlValues :
         call' = [state |-> "done", fn |-> "validateURL",
                  urlString |-> urlString, out |-> validateURL(urlString)]
    /\ UNCHANGED <<tzWest, lenientDates, clock, loads, result, dash>>

UtilNext == CallQuarterOptions \/ CallValidateURL

UtilSpec == UtilInit /\ [][UtilNext]_vars

(***************************************************************************)
(* Properties of generateSecureQuarterOptions and validateURL (UtilSpec)   *)
(***************************************************************************)
AxisCalled == call.state = "done" /\ call.fn = "generateSecureQuarterOptions"

\* The entries are those of the pairs from minYear-Q1 through maxYear-Q4:
\* 4 per year, strictly increasing, so with no gap and no duplicate.
IsQuarterAxis(quarters, minYear, maxYear) ==
    /\ Len(quarters) = 4 * (maxYear - minYear + 1)
    /\ {<<quarters[i].year, quarters[i].quarter>> : i \in DOMAIN quarters}
         = (minYear..maxYear) \X (1..4)
    /\ \A i, j \in DOMAIN quarters :
         i < j => \/ quarters[i].year < quarters[j].year
                  \/ /\ quarters[i].year = quarters[j].year
                     /\ quarters[i].quarter < quarters[j].quarter
    /\ \A i \in DOMAIN quarters :
         quarters[i].label = QuarterLabel(quarters[i].quarter, quarters[i].year)

\* C13 as stated: the call throws exactly when minYear > maxYear or the
\* span exceeds 50 years, and otherwise returns the axis from minYear-Q1
\* through maxYear-Q4.
C13_AxisOrRangeFailure ==
    AxisCalled =>
        IF call.minYear.n > call.maxYear.n
           \/ call.maxYear.n - call.minYear.n > MaxYearSpan
        THEN ~call.out.ok
        ELSE /\ call.out.ok
             /\ IsQuarterAxis(call.out.quarters, call.minYear.n, call.maxYear.n)

\* C13, amended: the call throws exactly when a year is not an integer of
\* [1900, 2030], minYear > maxYear or the span exceeds 50 years, and
\* otherwise returns the axis from minYear-Q1 through maxYear-Q4.
C13_AxisOrInvalidYears ==
    AxisCalled =>
        IF \/ call.minYear.t # "num" \/ call.maxYear.t # "num"
           \/ YearOutOfRange(call.minYear) \/ YearOutOfRange(call.maxYear)
           \/ call.minYear.n > call.maxYear.n
           \/ call.maxYear.n - call.minYear.n > MaxYearSpan
        THEN ~call.out.ok
        ELSE /\ call.out.ok
             /\ IsQuarterAxis(call.out.quarters, call.minYear.n, call.maxYear.n)

\* C13's case: the axis of 2019..2021 has 12 entries, from Q1 2019 to
\* Q4 2021.
C13_Witness ==
    /\ AxisCalled
    /\ call.minYear = Num(2019) /\ call.maxYear = Num(2021)
    /\ call.out.ok
    /\ Len(call.out.quarters) = 12
    /\ call.out.quarters[1].year = 2019 /\ call.out.quarters[1].quarter = 1
    /\ call.out.quarters[12].year = 2021 /\ call.out.quarters[12].quarter = 4

URLCalled == call.state = "done" /\ call.fn = "validateURL"

\* The host is the trusted domain or a subdomain of it.
TrustedHost(hostname) ==
    hostname = TrustedSuffix \/ EndsWith(hostname, <<".">> \o TrustedSuffix)

\* C14: validateURL accepts a value exactly when it is a URL of scheme
\* https whose host is sec.gov or a subdomain of sec.gov.
C14_AcceptsOnlyTrustedHttps ==
    URLCalled =>
        (call.out.t # "null"
           <=> /\ call.urlString.t = "str"
               /\ ParseURL(call.urlString.s).ok
               /\ ParseURL(call.urlString.s).protocol = HttpsScheme
               /\ TrustedHost(ParseURL(call.urlString.s).hostname))

(***************************************************************************)
(* Selection membership (FilterSpec)                                       *)
(***************************************************************************)
\* C19: when selectedCompanies is a non-empty array of at most 50 entries,
\* every record returned is of a company that is an element of
\* selectedCompanies.
C19_ReturnsOnlySelected ==
    (CallReturned /\ call.selectedCompanies.isArray
       /\ call.selectedCompanies.items # <<>>)
        => \A r \in SeqToSet(call.out.records) :
             Str(r.company) \in SeqToSet(call.selectedCompanies.items)

(***************************************************************************)
(* Claims about the Dashboard, checked under DashSpec.                     *)
(***************************************************************************)
\* The load sequence has run on a Dataset that processSecureFinancialData
\* returned.
LoadedDataset == dash.mounted /\ ~dash.loading /\ result.state = "fulfilled"

\* The axis has an option for the quarter of the record.
OnAxis(quarters, record) ==
    \E k \in DOMAIN quarters :
       quarters[k].year = record.year /\ quarters[k].quarter = record.quarter

\* C17: for every Dataset that processSecureFinancialData returns, the call
\* generateSecureQuarterOptions(dateRange.min, dateRange.max) of the load
\* sequence succeeds, and the axis it returns has the (year, quarter) of
\* every record of combinedData.
C17_AxisBuiltForEveryDataset ==
    LoadedDataset =>
       /\ generateSecureQuarterOptions(Num(result.value.dateRange.min),
                                       Num(result.value.dateRange.max)).ok
       /\ ~dash.error.set
       /\ \A i \in DOMAIN result.value.combinedData :
             OnAxis(dash.quarterOptions, result.value.combinedData[i])

C17_Witness ==
    /\ LoadedDataset
    /\ Len(dash.quarterOptions) > 4
    /\ \A i \in DOMAIN result.value.combinedData :
          OnAxis(dash.quarterOptions, result.value.combinedData[i])

\* The selection is within the limit of handleCompanyChange and holds only
\* names of the companies list of the loaded Dataset.
SelectionWithinLimit(selectedCompanies, companies) ==
    /\ Len(selectedCompanies) <= DashboardSelectionLimit
    /\ \A i \in DOMAIN selectedCompanies : Includes(companies, selectedCompanies[i])

\* The selection that the call handleCompanyChange(company) leaves in the
\* state d, once rendered.
SelectionAfterCall(d, company) ==
    FilterEffect(handleCompanyChange(d, result.value.companies, company),
                 result).selectedCompanies

\* C18: after a company toggle or an 'all' selection, selectedCompanies
\* holds at most the limit of companies (20 in the source), all of them
\* names of the loaded Dataset's companies list.
C18_SelectionBounded ==
    ControlsShown =>
       \A company \in CompanyArguments :
          SelectionWithinLimit(SelectionAfterCall(dash, company),
                               result.value.companies)

\* The load sequence has built the axis and the controls are rendered.
LoadSucceeded == ControlsShown /\ Len(dash.quarterOptions) > 0

\* 0 <= start <= end <= quarterOptions.length - 1
RangeWithinAxis(dateRange, quarterOptions) ==
    /\ 0 <= dateRange[1]
    /\ dateRange[1] <= dateRange[2]
    /\ dateRange[2] <= Len(quarterOptions) - 1

\* The integers parseInt reads from the inputs would not be a range of the
\* axis: one is NaN, or they are out of bounds or out of order.
WouldViolate(newStart, newEnd, quarterOptions) ==
    \/ ParseInt(newStart).t = "nan"
    \/ ParseInt(newEnd).t = "nan"
    \/ ~RangeWithinAxis(<<ParseInt(newStart).n, ParseInt(newEnd).n>>, quarterOptions)

\* The dateRange that the call handleDateRangeChange(newStart, newEnd)
\* leaves in the state d, once rendered.
RangeAfterCall(d, newStart, newEnd) ==
    FilterEffect(handleDateRangeChange(d, newStart, newEnd), result).dateRange

\* What a handleDateRangeChange call does to dateRange: nothing if the
\* inputs would violate the bounds, else it sets the range they denote.
RangeCallRespectsBounds(newStart, newEnd) ==
    IF WouldViolate(newStart, newEnd, dash.quarterOptions)
    THEN RangeAfterCall(dash, newStart, newEnd) = dash.dateRange
    ELSE RangeAfterCall(dash, newStart, newEnd)
            = <<ParseInt(newStart).n, ParseInt(newEnd).n>>

\* C20: after a successful load and any sequence of handleDateRangeChange
\* calls with arbitrary inputs, dateRange = [start, end] satisfies
\* 0 <= start <= end <= quarterOptions.length - 1, and a call whose inputs
\* would violate this leaves dateRange unchanged.
C20_DateRangeWithinAxis ==
    LoadSucceeded =>
       /\ RangeWithinAxis(dash.dateRange, dash.quarterOptions)
       /\ \A newStart \in IndexArguments, newEnd \in IndexArguments :
             RangeCallRespectsBounds(newStart, newEnd)

\* A call has moved the range off the whole axis, to a single quarter that
\* is neither its first nor its last.
C20_Witness ==
    /\ LoadSucceeded
    /\ dash.dateRange[1] = dash.dateRange[2]
    /\ 0 < dash.dateRange[1]
    /\ dash.dateRange[2] < Len(dash.quarterOptions) - 1

\* The filter effect has caught an error of secureFilterData.
FilteringFailed ==
    dash.mounted /\ dash.error.set /\ dash.error.prefix = "Filtering failed: "

\* C21: after a successful load, whatever the Dataset and the sequence of
\* company toggles, 'all' selections, metric changes and date-range
\* changes, every secureFilterData call of the filter effect returns, so
\* the Dashboard never shows a 'Filtering failed' error.
C21_FilterNeverFails == ~FilteringFailed

====
